---- MODULE Spec2Model ----
(***************************************************************************)
(* Model of jni/tiler.cpp: the process-wide registry tilesIndexMap with    *)
(* its three native methods load, unload and getTile, and the encoding of  *)
(* a result tile into vtzero builder calls (handleFeature,                 *)
(* handleLineStringFeature, handlePolygonFeature, handleFeatureProperties).*)
(*                                                                         *)
(* The vtzero builders are observed through the sequence of calls made on  *)
(* them (trace) and through the features committed to the layer (layer),   *)
(* which is what tile.serialize() writes.                                  *)
(***************************************************************************)
EXTENDS Integers, Sequences, FiniteSets, TLC

VARIABLES tilesIndexMap, disk, lastOp, result, threads

vars == <<tilesIndexMap, disk, lastOp, result, threads>>

----------------------------------------------------------------------------
(* Bounds of the model *)

\* largest number of vertices of one geometry (all rings of a polygon together)
MaxVertices == 4
\* largest number of attributes of one feature
MaxAttrs == 2
\* largest number of features of a multi-feature result tile
MaxFeatures == 2
\* largest number of rings of a polygon whose rings may be empty
MaxRings == 2
\* largest number of vertices of one such ring
MaxRingVertices == 1

----------------------------------------------------------------------------
(* Inputs *)

Keys == {"k1", "k2"}

Paths == {"a.geojson", "b.geojson", "missing.geojson", "garbage.geojson", "feature.geojson"}

\* tile coordinates asked for: the world tile and one tile of zoom 1
Coords == {<<0, 0, 0>>, <<1, 1, 1>>}

\* tile-local int16 coordinates
Points == [x : {0, 1}, y : {0}]

P0 == [x |-> 0, y |-> 0]
P1 == [x |-> 1, y |-> 0]

\* mapbox::geometry::geometry<int16_t>::which(): 0 point, 1 line_string,
\* 2 polygon, 3 multi_point, 4 multi_line_string, 5 multi_polygon
Point(p) == [which |-> 0, parts |-> <<<<p>>>>]
LineString(pts) == [which |-> 1, parts |-> <<pts>>]
Polygon(rings) == [which |-> 2, parts |-> rings]
MultiLineString(lines) == [which |-> 4, parts |-> lines]

\* mapbox::geometry::value::which(): 0 null, 1 bool, 2 uint64_t, 3 int64_t,
\* 4 double, 5 std::string (6 vector<value> and 7 property_map, which take
\* the same default branch as 0 and 3, are left out of the inputs)
ValueTags == 0..5

\* one stored payload per tag (an opaque token for the stored bits)
Value(tag) == [which |-> tag, get |-> 10 + tag]

Values == {Value(t) : t \in ValueTags}

AttrKeys == 1..MaxAttrs

SeqsOfLen(S, n) == [1..n -> S]

SeqsUpTo(S, n) == UNION {SeqsOfLen(S, k) : k \in 0..n}

\* sequences of non-empty rings with n vertices in all
RECURSIVE RingSeqs(_)
RingSeqs(n) ==
  IF n = 0 THEN {<<>>}
  ELSE UNION {{<<r>> \o rest : r \in SeqsOfLen(Points, k), rest \in RingSeqs(n - k)} : k \in 1..n}

LineStrings == {LineString(pts) : pts \in SeqsUpTo(Points, MaxVertices)}

Polygons == UNION {{Polygon(rings) : rings \in RingSeqs(n)} : n \in 1..MaxVertices}

Unsupported == {Point(P0), MultiLineString(<<<<P0, P1>>>>)}

Geometries == LineStrings \cup Polygons \cup Unsupported

\* attribute maps in storage (iteration) order: keys are unique
PropertyMaps ==
  {m \in SeqsUpTo([key : AttrKeys, value : Values], MaxAttrs) :
     \A i, j \in 1..Len(m) : i # j => m[i].key # m[j].key}

Feature(g, props) == [geometry |-> g, properties |-> props]

\* one feature of any geometry
GeometryTiles == {<<Feature(g, <<[key |-> 1, value |-> Value(5)]>>)>> : g \in Geometries}

\* one feature with any attribute map
AttributeTiles ==
  {<<Feature(LineString(<<P0, P1>>), m)>> : m \in PropertyMaps}

SampleFeatures ==
  {Feature(g, <<[key |-> 1, value |-> v]>>) :
     g \in {Point(P0), LineString(<<P1, P1>>), LineString(<<P0, P1>>), Polygon(<<<<P0, P0, P1>>>>)},
     v \in {Value(2), Value(3)}}

\* several features
SequenceTiles == SeqsUpTo(SampleFeatures, MaxFeatures)

Tiles == GeometryTiles \cup AttributeTiles \cup SequenceTiles

\* polygons as the type allows them: any number of rings, a ring of any
\* number of vertices, none included
AnyPolygons ==
  {Polygon(rings) : rings \in SeqsUpTo(SeqsUpTo(Points, MaxRingVertices), MaxRings)}

\* one polygon feature of that kind
AnyPolygonTiles == {<<Feature(g, <<[key |-> 1, value |-> Value(5)]>>)>> : g \in AnyPolygons}

----------------------------------------------------------------------------
(* The vtzero builders, seen through the calls made on them *)

Event(call, type, args) == [call |-> call, type |-> type, args |-> args]

NotThrown == ""

\* vtzero::point is a pair of int32_t: an int16_t coordinate plus 1 or 2 fits
point(x, y) == [x |-> x, y |-> y]

\* a feature builder over the layer's call trace: the geometry parts declared
\* so far (declared count, points set) and the properties added
feature_builder(call, trace) ==
  [trace |-> Append(trace, Event(call, "", <<>>)), parts |-> <<>>, props |-> <<>>, thrown |-> NotThrown]

\* add_ring(count) and add_linestring(count) open a part of a declared size
add_part(fb, call, count) ==
  [fb EXCEPT !.trace = Append(@, Event(call, "", <<count>>)),
             !.parts = Append(@, [declared |-> count, points |-> <<>>])]

set_point(fb, p) ==
  [fb EXCEPT !.trace = Append(@, Event("set_point", "", <<p.x, p.y>>)),
             !.parts[Len(fb.parts)].points = Append(@, p)]

add_property(fb, key, type, value) ==
  [fb EXCEPT !.trace = Append(@, Event("add_property", type, <<key, value>>)),
             !.props = Append(@, [key |-> key, type |-> type, value |-> value])]

\* commit() appends the feature to the layer; a builder destroyed by an
\* exception before commit() rolls the feature back
commit(fb, kind, st) ==
  IF fb.thrown # NotThrown
  THEN [st EXCEPT !.trace = fb.trace, !.thrown = fb.thrown]
  ELSE [st EXCEPT !.trace = Append(fb.trace, Event("commit", "", <<>>)),
                  !.layer = Append(@, [kind |-> kind, parts |-> fb.parts, props |-> fb.props]),
                  !.thrown = NotThrown]

----------------------------------------------------------------------------
(* handleFeatureProperties *)

RECURSIVE addPropertiesFrom(_, _, _)
addPropertiesFrom(properties, i, fb) ==
  IF i > Len(properties) THEN fb
  ELSE LET key == properties[i].key
           value == properties[i].value
           propertyType == value.which
       IN  CASE propertyType = 2 ->
                  addPropertiesFrom(properties, i + 1, add_property(fb, key, "uint64_t", value.get))
             [] propertyType = 4 ->
                  addPropertiesFrom(properties, i + 1, add_property(fb, key, "double", value.get))
             [] propertyType = 5 ->
                  addPropertiesFrom(properties, i + 1, add_property(fb, key, "string", value.get))
             [] OTHER -> [fb EXCEPT !.thrown = "Unknown variant type"]

\* mutant of handleFeatureProperties: the default branch skips the attribute
\* where the code throws
RECURSIVE addPropertiesFrom_skipUnknown(_, _, _)
addPropertiesFrom_skipUnknown(properties, i, fb) ==
  IF i > Len(properties) THEN fb
  ELSE LET key == properties[i].key
           value == properties[i].value
           propertyType == value.which
       IN  CASE propertyType = 2 ->
                  addPropertiesFrom_skipUnknown(properties, i + 1, add_property(fb, key, "uint64_t", value.get))
             [] propertyType = 4 ->
                  addPropertiesFrom_skipUnknown(properties, i + 1, add_property(fb, key, "double", value.get))
             [] propertyType = 5 ->
                  addPropertiesFrom_skipUnknown(properties, i + 1, add_property(fb, key, "string", value.get))
             [] OTHER -> addPropertiesFrom_skipUnknown(properties, i + 1, fb)

handleFeatureProperties_skipUnknown(properties, fb) == addPropertiesFrom_skipUnknown(properties, 1, fb)

handleFeatureProperties(properties, fb) == addPropertiesFrom(properties, 1, fb)

----------------------------------------------------------------------------
(* handlePolygonFeature *)

\* the inner loop over the points of one ring; previous is carried along
RECURSIVE ringPointsFrom(_, _, _, _)
ringPointsFrom(ring, k, previous, fb) ==
  IF k > Len(ring) THEN [previous |-> previous, fb |-> fb]
  ELSE LET current_point == point(ring[k].x, ring[k].y)
       IN  IF previous.x # current_point.x \/ previous.y # current_point.y
           THEN ringPointsFrom(ring, k + 1, current_point, set_point(fb, current_point))
           ELSE ringPointsFrom(ring, k + 1, current_point, fb)

\* mutant of ringsFrom: the count declared for a ring is the number of points
\* that will be emitted for it, not the size of the ring
RECURSIVE ringsFrom_declareEmitted(_, _, _, _)
ringsFrom_declareEmitted(polygon, j, previous, fb) ==
  IF j > Len(polygon) THEN fb
  ELSE LET dry == ringPointsFrom(polygon[j], 1, previous, add_part(fb, "add_ring", 0))
           count == Len(dry.fb.parts[Len(dry.fb.parts)].points)
           r == ringPointsFrom(polygon[j], 1, previous, add_part(fb, "add_ring", count))
       IN  ringsFrom_declareEmitted(polygon, j + 1, r.previous, r.fb)

\* the outer loop over the rings; previous is not reset between rings
RECURSIVE ringsFrom(_, _, _, _)
ringsFrom(polygon, j, previous, fb) ==
  IF j > Len(polygon) THEN fb
  ELSE LET r == ringPointsFrom(polygon[j], 1, previous, add_part(fb, "add_ring", Len(polygon[j])))
       IN  ringsFrom(polygon, j + 1, r.previous, r.fb)

\* polygon[0][0] is an element of the polygon
InRange(polygon) == Len(polygon) >= 1 /\ Len(polygon[1]) >= 1

\* what the unchecked read of polygon[0][0] can do when it is out of range:
\* fault (the data pointer of an empty vector is null or unmapped), or yield
\* the bytes that lie there, here one point that is no vertex of the polygon
\* and one that makes the sentinel equal to a vertex
OutOfRangeReads ==
  {[fault |-> TRUE, value |-> P0]}
    \cup {[fault |-> FALSE, value |-> v] : v \in {[x |-> 1, y |-> 0], [x |-> -1, y |-> -2]}}

\* the read of an element that exists does not depend on the memory behind it
NoFault == [fault |-> FALSE, value |-> P0]

\* the sentinel is read from polygon[0][0] without a test of the sizes; on a
\* polygon without rings or with an empty first ring the read is out of
\* range, and st.memory is what it finds
handlePolygonFeature(geojson_feature, st) ==
  LET polygon == geojson_feature.geometry.parts
      featureBuilder == feature_builder("polygon_feature_builder", st.trace)
      reading == IF InRange(polygon) THEN featureBuilder
                 ELSE [featureBuilder EXCEPT
                         !.trace = Append(@, Event("read", "polygon[0][0] out of range", <<>>))]
      first == IF InRange(polygon) THEN polygon[1][1] ELSE st.memory.value
      previous == point(first.x + 1, first.y + 2)
  IN  IF ~InRange(polygon) /\ st.memory.fault
      THEN commit([reading EXCEPT !.thrown = "SIGSEGV"], "polygon", st)
      ELSE commit(handleFeatureProperties(geojson_feature.properties,
                                          ringsFrom(polygon, 1, previous, reading)),
                  "polygon", st)

----------------------------------------------------------------------------
(* handleLineStringFeature *)

\* squared length of the segment from p to q
Dist2(p, q) == (q.x - p.x) * (q.x - p.x) + (q.y - p.y) * (q.y - p.y)

\* measure: the total length of a line string.  Only its comparison with 0
\* is used, and a sum of segment lengths is 0 exactly when the sum of their
\* squares is: the squares are summed to stay within the integers.
RECURSIVE measureFrom(_, _)
measureFrom(lineString, j) ==
  IF j >= Len(lineString) THEN 0
  ELSE Dist2(lineString[j], lineString[j + 1]) + measureFrom(lineString, j + 1)

measure(lineString) == measureFrom(lineString, 1)

\* mutant of linePointsFrom: the duplicate check of the polygon loop applied
\* to the line string
RECURSIVE linePointsFrom_dedup(_, _, _)
linePointsFrom_dedup(lineString, j, fb) ==
  IF j > Len(lineString) THEN fb
  ELSE IF j > 1 /\ lineString[j] = lineString[j - 1]
       THEN linePointsFrom_dedup(lineString, j + 1, fb)
       ELSE linePointsFrom_dedup(lineString, j + 1, set_point(fb, point(lineString[j].x, lineString[j].y)))

RECURSIVE linePointsFrom(_, _, _)
linePointsFrom(lineString, j, fb) ==
  IF j > Len(lineString) THEN fb
  ELSE linePointsFrom(lineString, j + 1, set_point(fb, point(lineString[j].x, lineString[j].y)))

\* mutant of handleLineStringFeature: the zero-length test is missing
handleLineStringFeature_noZeroCheck(geojson_feature, st) ==
  LET lineString == geojson_feature.geometry.parts[1]
      featureBuilder == feature_builder("linestring_feature_builder", st.trace)
      declared == add_part(featureBuilder, "add_linestring", Len(lineString))
      streamed == linePointsFrom(lineString, 1, declared)
  IN  commit(handleFeatureProperties(geojson_feature.properties, streamed), "linestring", st)

handleLineStringFeature(geojson_feature, st) ==
  LET lineString == geojson_feature.geometry.parts[1]
  IN  IF measure(lineString) = 0 THEN st
      ELSE LET featureBuilder == feature_builder("linestring_feature_builder", st.trace)
               declared == add_part(featureBuilder, "add_linestring", Len(lineString))
               streamed == linePointsFrom(lineString, 1, declared)
           IN  commit(handleFeatureProperties(geojson_feature.properties, streamed), "linestring", st)

----------------------------------------------------------------------------
(* handleFeature *)

handleFeature(feature, st) ==
  CASE feature.geometry.which = 1 -> handleLineStringFeature(feature, st)
    [] feature.geometry.which = 2 -> handlePolygonFeature(feature, st)
    [] OTHER -> st

----------------------------------------------------------------------------
(* The files on disk and the external collaborators of load *)

\* a file holding a feature collection; features is the result tile the
\* tiling engine derives from it for the world tile
FeatureCollectionFile(features) ==
  [readable |-> TRUE, geojson |-> "feature_collection", features |-> features]

\* a file that cannot be read
MissingFile == [readable |-> FALSE, geojson |-> "invalid", features |-> <<>>]

\* a file whose content is not GeoJSON
GarbageFile == [readable |-> TRUE, geojson |-> "invalid", features |-> <<>>]

\* a file holding valid GeoJSON that is one feature, not a feature collection
SingleFeatureFile == [readable |-> TRUE, geojson |-> "feature", features |-> <<>>]

Disk(tile) ==
  [p \in Paths |->
     CASE p = "a.geojson" -> FeatureCollectionFile(tile)
       [] p = "b.geojson" -> FeatureCollectionFile(<<Feature(LineString(<<P0, P1>>), <<>>)>>)
       [] p = "missing.geojson" -> MissingFile
       [] p = "garbage.geojson" -> GarbageFile
       [] OTHER -> SingleFeatureFile]

\* GeoJSONVT index{...}: the index built from a feature collection
GeoJSONVT(path, file) == [source |-> path, features |-> file.features]

\* index.getTile(z, x, y): the clipped features of the tile; every feature
\* of the data set lies in the world tile and none in the other tile asked for
IndexGetTile(index, z, x, y) ==
  IF z = 0 /\ x = 0 /\ y = 0 THEN index.features ELSE <<>>

----------------------------------------------------------------------------
(* The registry: std::map<std::string, GeoJSONVT> as a set of (key, index) *)

contains(map, key) == \E e \in map : e[1] = key

find(map, key) == (CHOOSE e \in map : e[1] = key)[2]

\* mutant of insert: the new index replaces the one stored under the key,
\* as tilesIndexMap[key] = index would
insert_overwrite(map, key, index) == {e \in map : e[1] # key} \cup {<<key, index>>}

\* std::map::insert keeps the element already stored under an equal key
insert(map, key, index) == IF contains(map, key) THEN map ELSE map \cup {<<key, index>>}

\* mutant of erase: the entry is left in the map
erase_keep(map, key) == map

\* mutant of erase: the whole map is cleared
erase_all(map, key) == {}

\* mutant of erase: the entries of the other keys are erased
erase_others(map, key) == {e \in map : e[1] = key}

erase(map, key) == {e \in map : e[1] # key}

----------------------------------------------------------------------------
(* What the last native call returned or threw *)

NoBytes == [returned |-> FALSE, layer |-> <<>>]

Bytes(layer) == [returned |-> TRUE, layer |-> layer]

NoCoord == <<0, 0, 0>>

Outcome(op, key, coord, thrown, message, trace, bytes) ==
  [op |-> op, key |-> key, coord |-> coord, thrown |-> thrown,
   message |-> message, trace |-> trace, bytes |-> bytes]

----------------------------------------------------------------------------
(* The host threads: where each one is inside a native method *)

Threads == {"t1", "t2"}

NoIndex == [source |-> "", features |-> <<>>]

\* a thread outside the native methods; inside one, pc is "inserting" (in
\* tilesIndexMap.insert), "erasing" (in tilesIndexMap.erase), "finding" (in
\* tilesIndexMap.find) or "querying" (using the entry the iterator points
\* to); index is that entry, dangling says that it was erased meanwhile,
\* raced that the call on the map overlapped a conflicting one
Idle ==
  [pc |-> "idle", key |-> "", path |-> "", coord |-> NoCoord, index |-> NoIndex,
   raced |-> FALSE, dangling |-> FALSE]

----------------------------------------------------------------------------
(* The native methods, one call at a time *)

Init ==
  /\ tilesIndexMap = {}
  /\ \E tile \in Tiles : disk = Disk(tile)
  /\ lastOp = [k \in Keys |-> "none"]
  /\ result = Outcome("none", "", NoCoord, NotThrown, <<>>, <<>>, NoBytes)
  /\ threads = [t \in Threads |-> Idle]

\* the exception load ends with, NotThrown when it reaches the insert
loadThrows(file) ==
  CASE ~file.readable -> "io_error"
    [] file.geojson = "invalid" -> "parse_error"
    [] file.geojson # "feature_collection" -> "bad_variant_access"
    [] OTHER -> NotThrown

\* mutant of load: the entry is registered before the file is read and parsed
load_registerFirst(key, path) ==
  /\ result' = Outcome("load", key, NoCoord, loadThrows(disk[path]), <<>>,
                       <<Event("loadFile", path, <<>>)>>, NoBytes)
  /\ tilesIndexMap' = insert(tilesIndexMap, key, GeoJSONVT(path, disk[path]))
  /\ lastOp' = [lastOp EXCEPT ![key] = "load"]
  /\ UNCHANGED <<disk, threads>>

load(key, path) ==
  LET thrown == loadThrows(disk[path])
  IN  /\ result' = Outcome("load", key, NoCoord, thrown, <<>>,
                           <<Event("loadFile", path, <<>>)>>, NoBytes)
      /\ IF thrown # NotThrown
         THEN UNCHANGED <<tilesIndexMap, lastOp>>
         ELSE /\ tilesIndexMap' = insert(tilesIndexMap, key, GeoJSONVT(path, disk[path]))
              /\ lastOp' = [lastOp EXCEPT ![key] = "load"]
      /\ UNCHANGED <<disk, threads>>

unload(key) ==
  /\ tilesIndexMap' = erase(tilesIndexMap, key)
  /\ lastOp' = [lastOp EXCEPT ![key] =
                  IF contains(tilesIndexMap, key) THEN "unload_erased" ELSE "unload_absent"]
  /\ result' = Outcome("unload", key, NoCoord, NotThrown, <<>>, <<>>, NoBytes)
  /\ UNCHANGED <<disk, threads>>

\* the loop over resultTile.features; an exception leaves the loop
RECURSIVE featuresFrom(_, _, _)
featuresFrom(features, i, st) ==
  IF i > Len(features) \/ st.thrown # NotThrown THEN st
  ELSE featuresFrom(features, i + 1,
         handleFeature(features[i],
           [st EXCEPT !.trace = Append(@, Event("cout feature", "", <<i>>))]))

\* lines 155-231 of getTile on the result tile the index answered with
encodeResultTile(resultTile, z, x, y, memory) ==
  LET tile == <<Event("index.getTile", "", <<z, x, y>>),
                Event("tile_builder", "", <<>>),
                Event("layer_builder", "default", <<>>)>>
      st == featuresFrom(resultTile, 1,
              [trace |-> tile, layer |-> <<>>, thrown |-> NotThrown, memory |-> memory])
  IN  IF st.thrown = "SIGSEGV"
      THEN Outcome("getTile", "", <<z, x, y>>, "SIGSEGV", <<>>, st.trace, NoBytes)
      ELSE IF st.thrown # NotThrown
      THEN Outcome("getTile", "", <<z, x, y>>, "runtime_error", <<st.thrown>>, st.trace, NoBytes)
      ELSE Outcome("getTile", "", <<z, x, y>>, NotThrown, <<>>,
                   Append(st.trace, Event("serialize", "", <<>>)), Bytes(st.layer))

\* what getTile does once the key is found
encodeTile(index, z, x, y, memory) ==
  encodeResultTile(IndexGetTile(index, z, x, y), z, x, y, memory)

\* the memory a getTile call can find behind the end of an empty vector; it
\* is read only when the result tile holds a polygon without a first vertex
Memory(key, z, x, y) ==
  IF /\ contains(tilesIndexMap, key)
     /\ LET resultTile == IndexGetTile(find(tilesIndexMap, key), z, x, y)
        IN  \E i \in 1..Len(resultTile) :
              /\ resultTile[i].geometry.which = 2
              /\ ~InRange(resultTile[i].geometry.parts)
  THEN OutOfRangeReads
  ELSE {NoFault}

\* mutant of getTile: the result of find is used without the test against end(),
\* and an absent key yields an empty tile
getTile_noCheck(key, z, x, y) ==
  /\ \E memory \in Memory(key, z, x, y) :
       result' =
         IF ~contains(tilesIndexMap, key)
         THEN [encodeResultTile(<<>>, z, x, y, memory) EXCEPT !.key = key]
         ELSE [encodeTile(find(tilesIndexMap, key), z, x, y, memory) EXCEPT !.key = key]
  /\ UNCHANGED <<tilesIndexMap, disk, lastOp, threads>>

getTile(key, z, x, y) ==
  /\ \E memory \in Memory(key, z, x, y) :
       result' =
         IF ~contains(tilesIndexMap, key)
         THEN Outcome("getTile", key, <<z, x, y>>, "invalid_argument",
                      <<"Key doesn't exist:", key>>, <<>>, NoBytes)
         ELSE [encodeTile(find(tilesIndexMap, key), z, x, y, memory) EXCEPT !.key = key]
  /\ UNCHANGED <<tilesIndexMap, disk, lastOp, threads>>

Next ==
  \/ \E key \in Keys, path \in Paths : load(key, path)
  \/ \E key \in Keys : unload(key)
  \/ \E key \in Keys, c \in Coords : getTile(key, c[1], c[2], c[3])

Spec == Init /\ [][Next]_vars

\* the data set of a.geojson holds one polygon whose rings may be empty
InitAnyPolygon ==
  /\ tilesIndexMap = {}
  /\ \E tile \in AnyPolygonTiles : disk = Disk(tile)
  /\ lastOp = [k \in Keys |-> "none"]
  /\ result = Outcome("none", "", NoCoord, NotThrown, <<>>, <<>>, NoBytes)
  /\ threads = [t \in Threads |-> Idle]

\* the process was ended by a fault
Crashed == result.thrown = "SIGSEGV"

\* the native methods are called as long as the process lives
NextAnyPolygon ==
  \/ ~Crashed /\ \E key \in Keys, path \in Paths : load(key, path)
  \/ ~Crashed /\ \E key \in Keys : unload(key)
  \/ ~Crashed /\ \E key \in Keys, c \in Coords : getTile(key, c[1], c[2], c[3])

SpecAnyPolygon == InitAnyPolygon /\ [][NextAnyPolygon]_vars

----------------------------------------------------------------------------
(* The native methods called from several host threads.  No lock is taken    *)
(* in load, unload or getTile, so a call on tilesIndexMap is split into the  *)
(* step that enters it and the step that leaves it, and the use of the       *)
(* entry found by getTile is a step of its own.                              *)

Writing == {"inserting", "erasing"}

\* inside a member function of the map
Inside == Writing \cup {"finding"}

\* the threads inside the map whose call conflicts with a call of kind pc
Conflicts(t, pc) ==
  {u \in Threads \ {t} :
     threads[u].pc \in Writing \/ (pc \in Writing /\ threads[u].pc = "finding")}

\* thread t enters the map
Enter(t, call) ==
  [u \in Threads |->
     IF u = t THEN [call EXCEPT !.raced = Conflicts(t, call.pc) # {}]
     ELSE IF u \in Conflicts(t, call.pc) THEN [threads[u] EXCEPT !.raced = TRUE]
     ELSE threads[u]]

\* what an insert or an erase leaves when it ran alone, and what it can
\* leave when it raced: its effect, no effect, or a fault
WriteOutcomes(t, intended) ==
  IF threads[t].raced
  THEN {[fault |-> FALSE, map |-> intended], [fault |-> FALSE, map |-> tilesIndexMap],
        [fault |-> TRUE, map |-> tilesIndexMap]}
  ELSE {[fault |-> FALSE, map |-> intended]}

\* what find answers: the entry or end(); when it raced also end() for a
\* key that is stored, or a fault
FindOutcomes(t) ==
  IF threads[t].raced THEN {"answer", "end", "fault"} ELSE {"answer"}

\* lines 126-130 of load use nothing shared; the thread then enters insert
load_enter(t, key, path) ==
  /\ threads[t].pc = "idle"
  /\ IF loadThrows(disk[path]) # NotThrown
     THEN /\ result' = Outcome("load", key, NoCoord, loadThrows(disk[path]), <<>>,
                               <<Event("loadFile", path, <<>>)>>, NoBytes)
          /\ UNCHANGED threads
     ELSE /\ threads' = Enter(t, [Idle EXCEPT !.pc = "inserting", !.key = key, !.path = path])
          /\ UNCHANGED result
  /\ UNCHANGED <<tilesIndexMap, disk, lastOp>>

\* the insert of line 131 takes effect and load returns
load_insert(t) ==
  LET key == threads[t].key
      path == threads[t].path
  IN  /\ threads[t].pc = "inserting"
      /\ \E outcome \in WriteOutcomes(t, insert(tilesIndexMap, key, GeoJSONVT(path, disk[path]))) :
           /\ tilesIndexMap' = outcome.map
           /\ result' = Outcome("load", key, NoCoord,
                                IF outcome.fault THEN "SIGSEGV" ELSE NotThrown, <<>>,
                                <<Event("loadFile", path, <<>>)>>, NoBytes)
      /\ lastOp' = [lastOp EXCEPT ![key] = "load"]
      /\ threads' = [threads EXCEPT ![t] = Idle]
      /\ UNCHANGED disk

\* unload enters erase at line 141
unload_enter(t, key) ==
  /\ threads[t].pc = "idle"
  /\ threads' = Enter(t, [Idle EXCEPT !.pc = "erasing", !.key = key])
  /\ UNCHANGED <<tilesIndexMap, disk, lastOp, result>>

\* the erase takes effect: the entry is destroyed, and an iterator another
\* thread holds on it dangles
unload_erase(t) ==
  LET key == threads[t].key
  IN  /\ threads[t].pc = "erasing"
      /\ \E outcome \in WriteOutcomes(t, erase(tilesIndexMap, key)) :
           /\ tilesIndexMap' = outcome.map
           /\ result' = Outcome("unload", key, NoCoord,
                                IF outcome.fault THEN "SIGSEGV" ELSE NotThrown, <<>>, <<>>, NoBytes)
           /\ threads' =
                [u \in Threads |->
                   IF u = t THEN Idle
                   ELSE IF /\ threads[u].pc = "querying"
                           /\ threads[u].key = key
                           /\ contains(tilesIndexMap, key)
                           /\ ~contains(outcome.map, key)
                        THEN [threads[u] EXCEPT !.dangling = TRUE]
                        ELSE threads[u]]
      /\ lastOp' = [lastOp EXCEPT ![key] =
                      IF contains(tilesIndexMap, key) THEN "unload_erased" ELSE "unload_absent"]
      /\ UNCHANGED disk

\* getTile enters find at line 150
getTile_enter(t, key, z, x, y) ==
  /\ threads[t].pc = "idle"
  /\ threads' = Enter(t, [Idle EXCEPT !.pc = "finding", !.key = key, !.coord = <<z, x, y>>])
  /\ UNCHANGED <<tilesIndexMap, disk, lastOp, result>>

\* find answers: getTile throws on end() (line 152) or keeps the iterator
getTile_find(t) ==
  LET key == threads[t].key
  IN  /\ threads[t].pc = "finding"
      /\ \E outcome \in FindOutcomes(t) :
           IF outcome = "fault"
           THEN /\ result' = Outcome("getTile", key, threads[t].coord, "SIGSEGV", <<>>, <<>>, NoBytes)
                /\ threads' = [threads EXCEPT ![t] = Idle]
           ELSE IF outcome = "end" \/ ~contains(tilesIndexMap, key)
           THEN /\ result' = Outcome("getTile", key, threads[t].coord, "invalid_argument",
                                     <<"Key doesn't exist:", key>>, <<>>, NoBytes)
                /\ threads' = [threads EXCEPT ![t] = Idle]
           ELSE /\ threads' = [threads EXCEPT ![t] =
                                 [@ EXCEPT !.pc = "querying", !.raced = FALSE,
                                           !.index = find(tilesIndexMap, key)]]
                /\ UNCHANGED result
      /\ UNCHANGED <<tilesIndexMap, disk, lastOp>>

\* lines 155-231 on iterator->second; on an entry that was erased meanwhile
\* this is a use after free: a fault, or a tile of the index as it was
getTile_query(t) ==
  LET c == threads[t].coord
  IN  /\ threads[t].pc = "querying"
      /\ \E fault \in (IF threads[t].dangling THEN {TRUE, FALSE} ELSE {FALSE}) :
           result' =
             IF fault
             THEN Outcome("getTile", threads[t].key, c, "SIGSEGV", <<>>, <<>>, NoBytes)
             ELSE [encodeTile(threads[t].index, c[1], c[2], c[3], NoFault)
                     EXCEPT !.key = threads[t].key]
      /\ threads' = [threads EXCEPT ![t] = Idle]
      /\ UNCHANGED <<tilesIndexMap, disk, lastOp>>

\* a.geojson holds one polygon, b.geojson one line
InitConcurrent ==
  /\ tilesIndexMap = {}
  /\ disk = Disk(<<Feature(Polygon(<<<<P0, P0, P1>>>>), <<>>)>>)
  /\ lastOp = [k \in Keys |-> "none"]
  /\ result = Outcome("none", "", NoCoord, NotThrown, <<>>, <<>>, NoBytes)
  /\ threads = [t \in Threads |-> Idle]

NextConcurrent ==
  \/ ~Crashed /\ \E t \in Threads, key \in Keys, path \in Paths : load_enter(t, key, path)
  \/ ~Crashed /\ \E t \in Threads : load_insert(t)
  \/ ~Crashed /\ \E t \in Threads, key \in Keys : unload_enter(t, key)
  \/ ~Crashed /\ \E t \in Threads : unload_erase(t)
  \/ ~Crashed /\ \E t \in Threads, key \in Keys, c \in Coords : getTile_enter(t, key, c[1], c[2], c[3])
  \/ ~Crashed /\ \E t \in Threads : getTile_find(t)
  \/ ~Crashed /\ \E t \in Threads : getTile_query(t)

SpecConcurrent == InitConcurrent /\ [][NextConcurrent]_vars

----------------------------------------------------------------------------
(* Reading the outcome of a getTile call *)

\* the last call was a getTile that found its key
Encoded == result.op = "getTile" /\ contains(tilesIndexMap, result.key)

\* the result tile that call encoded (getTile leaves the registry as it was)
InputTile ==
  IndexGetTile(find(tilesIndexMap, result.key), result.coord[1], result.coord[2], result.coord[3])

Marker(i) == Event("cout feature", "", <<i>>)

Reached(trace, i) == \E p \in 1..Len(trace) : trace[p] = Marker(i)

MarkerPos(trace, i) == CHOOSE p \in 1..Len(trace) : trace[p] = Marker(i)

\* the builder calls made while feature i was handled
Segment(trace, i) ==
  LET from == MarkerPos(trace, i) + 1
      to == IF Reached(trace, i + 1) THEN MarkerPos(trace, i + 1) - 1 ELSE Len(trace)
  IN  SelectSeq(SubSeq(trace, from, to), LAMBDA e : e.call # "serialize")

HasCommit(calls) == \E p \in 1..Len(calls) : calls[p].call = "commit"

\* the input positions of the committed features, in the order of their commits
RECURSIVE CommittedFrom(_, _, _)
CommittedFrom(trace, i, n) ==
  IF i > n THEN <<>>
  ELSE (IF Reached(trace, i) /\ HasCommit(Segment(trace, i)) THEN <<i>> ELSE <<>>)
         \o CommittedFrom(trace, i + 1, n)

CommittedIndices == CommittedFrom(result.trace, 1, Len(InputTile))

\* the builder calls alone, without the positions printed by the loop
BuilderCalls(trace) == SelectSeq(trace, LAMBDA e : e.call # "cout feature")

IsLineString(f) == f.geometry.which = 1

IsPolygon(f) == f.geometry.which = 2

\* two neighbouring points of the line differ
NonZeroLength(pts) == \E j \in 1..(Len(pts) - 1) : pts[j] # pts[j + 1]

ZeroLengthLine(f) == IsLineString(f) /\ ~NonZeroLength(f.geometry.parts[1])

\* the feature reaches the attribute encoder
EncodedKind(f) == IsPolygon(f) \/ (IsLineString(f) /\ NonZeroLength(f.geometry.parts[1]))

\* the wire type of the four attribute tags of the specification
WireType(tag) ==
  CASE tag = 1 -> "bool" [] tag = 2 -> "uint64_t" [] tag = 4 -> "double" [] tag = 5 -> "string"
    [] OTHER -> "none"

SpecTags == {1, 2, 4, 5}

OnlySpecTags(f) == \A a \in 1..Len(f.properties) : f.properties[a].value.which \in SpecTags

SetPoints(pts) == [k \in 1..Len(pts) |-> Event("set_point", "", <<pts[k].x, pts[k].y>>)]

\* a ring without the vertices equal to their predecessor in the ring
RECURSIVE Deduplicated(_)
Deduplicated(ring) ==
  IF Len(ring) <= 1 THEN ring
  ELSE LET front == Deduplicated(SubSeq(ring, 1, Len(ring) - 1))
       IN  IF ring[Len(ring)] = ring[Len(ring) - 1] THEN front ELSE Append(front, ring[Len(ring)])

\* the number of vertices equal to their predecessor in the ring
DuplicatePairs(ring) == Cardinality({k \in 2..Len(ring) : ring[k] = ring[k - 1]})

NoNeighboursEqual(pts) == \A k \in 2..Len(pts) : pts[k] # pts[k - 1]

----------------------------------------------------------------------------
(* Claims *)

\* C1: when the last registry operation on a key was unload of that key, a
\* getTile on the key fails with the lookup error, whatever the tile
\* coordinates, and returns no bytes.
C1_UnloadedKeyLookupFails ==
  \A k \in Keys :
    (result.op = "getTile" /\ result.key = k /\ lastOp[k] \in {"unload_erased", "unload_absent"})
      => /\ result.thrown = "invalid_argument"
         /\ result.message = <<"Key doesn't exist:", k>>
         /\ ~result.bytes.returned

\* a getTile on a key that was loaded and then unloaded, another key being loaded
C1_Witness ==
  /\ result.op = "getTile"
  /\ lastOp[result.key] = "unload_erased"
  /\ result.thrown = "invalid_argument"
  /\ tilesIndexMap # {}

\* C2: getTile on a key that is not in the registry throws the key-not-found
\* error carrying the key, queries no index, builds no tile, returns no bytes
\* and leaves the registry unchanged.
C2_MissingKeyGetTile ==
  [][\A k \in Keys :
       (result'.op = "getTile" /\ result'.key = k /\ ~contains(tilesIndexMap, k))
         => /\ result'.thrown = "invalid_argument"
            /\ result'.message = <<"Key doesn't exist:", k>>
            /\ result'.trace = <<>>
            /\ ~result'.bytes.returned
            /\ tilesIndexMap' = tilesIndexMap]_vars

\* a getTile on an absent key, with another key registered
C2_Witness ==
  /\ result.op = "getTile"
  /\ ~contains(tilesIndexMap, result.key)
  /\ result.message = <<"Key doesn't exist:", result.key>>
  /\ tilesIndexMap # {}

\* the input feature behind the n-th feature of the returned layer
Source(n) == InputTile[CommittedIndices[n]]

\* C3: every ring of a polygon feature, the first and the later ones, with N
\* vertices of which M equal their predecessor in the ring, is emitted as
\* exactly N - M points, in input order, none equal to the point emitted
\* just before it.
C3_RingEmitsNMinusM ==
  (Encoded /\ result.bytes.returned) =>
    \A n \in 1..Len(result.bytes.layer) :
      IsPolygon(Source(n)) =>
        \A j \in 1..Len(Source(n).geometry.parts) :
          LET ring == Source(n).geometry.parts[j]
              emitted == result.bytes.layer[n].parts[j].points
          IN  /\ Len(emitted) = Len(ring) - DuplicatePairs(ring)
              /\ emitted = Deduplicated(ring)
              /\ NoNeighboursEqual(emitted)

\* C4: the first vertex of every ring of a polygon is emitted, also when it
\* has the coordinates of the last vertex of the ring before it.
C4_FirstVertexOfEveryRingEmitted ==
  (Encoded /\ result.bytes.returned) =>
    \A n \in 1..Len(result.bytes.layer) :
      IsPolygon(Source(n)) =>
        \A j \in 1..Len(Source(n).geometry.parts) :
          LET ring == Source(n).geometry.parts[j]
              emitted == result.bytes.layer[n].parts[j].points
          IN  Len(emitted) >= 1 /\ emitted[1] = ring[1]

WithoutZeroLengthLines(tile) == SelectSeq(tile, LAMBDA f : ~ZeroLengthLine(f))

\* C5: a line string of length zero (all points identical, one point or no
\* point) writes nothing: no builder, no declaration, no point, no attribute
\* (so no attribute error) and no commit; the rest of the tile is encoded as
\* if the feature were absent.
C5_ZeroLengthLineWritesNothing ==
  Encoded =>
    /\ \A i \in 1..Len(InputTile) :
         (ZeroLengthLine(InputTile[i]) /\ Reached(result.trace, i))
           => Segment(result.trace, i) = <<>>
    /\ LET absent == encodeResultTile(WithoutZeroLengthLines(InputTile),
                                      result.coord[1], result.coord[2], result.coord[3], NoFault)
       IN  /\ BuilderCalls(result.trace) = BuilderCalls(absent.trace)
           /\ result.bytes = absent.bytes
           /\ result.thrown = absent.thrown
           /\ result.message = absent.message

\* a returned tile with a committed feature, whose input held a zero-length
\* line carrying an attribute the encoder rejects
C5_Witness ==
  /\ Encoded
  /\ result.bytes.returned
  /\ Len(result.bytes.layer) >= 1
  /\ \E i \in 1..Len(InputTile) :
       /\ ZeroLengthLine(InputTile[i])
       /\ Len(InputTile[i].geometry.parts[1]) >= 2
       /\ ~OnlySpecTags(InputTile[i])
       /\ Reached(result.trace, i)

\* C6: a line string of nonzero length is declared with its input point
\* count and then every input point is emitted, in input order, consecutive
\* identical points included, so that the declared count is the number of
\* points emitted before commit.
C6_LineStringKeepsEveryPoint ==
  Encoded =>
    \A i \in 1..Len(InputTile) :
      LET pts == InputTile[i].geometry.parts[1]
          seg == Segment(result.trace, i)
      IN  (IsLineString(InputTile[i]) /\ NonZeroLength(pts) /\ Reached(result.trace, i)) =>
            /\ Len(seg) >= Len(pts) + 2
            /\ SubSeq(seg, 1, Len(pts) + 2) =
                 <<Event("linestring_feature_builder", "", <<>>),
                   Event("add_linestring", "", <<Len(pts)>>)>> \o SetPoints(pts)
            /\ \A p \in (Len(pts) + 3)..Len(seg) : seg[p].call \notin {"set_point", "add_linestring"}
            /\ result.bytes.returned =>
                 \A n \in 1..Len(result.bytes.layer) :
                   CommittedIndices[n] = i =>
                     /\ result.bytes.layer[n].kind = "linestring"
                     /\ result.bytes.layer[n].parts = <<[declared |-> Len(pts), points |-> pts]>>

\* a committed line string that holds two consecutive identical points
C6_Witness ==
  /\ Encoded
  /\ result.bytes.returned
  /\ \E n \in 1..Len(result.bytes.layer) :
       /\ IsLineString(Source(n))
       /\ ~NoNeighboursEqual(Source(n).geometry.parts[1])
       /\ result.bytes.layer[n].parts[1].points = Source(n).geometry.parts[1]

PropertyCalls(calls) == SelectSeq(calls, LAMBDA e : e.call = "add_property")

\* C7: a feature whose attributes are all boolean, unsigned-integer, double
\* or string is encoded without error, one property per key, each with the
\* wire type of its tag and the stored value; a boolean attribute raises no
\* error.
C7_SpecTagsAreEncoded ==
  Encoded =>
    \A i \in 1..Len(InputTile) :
      (Reached(result.trace, i) /\ EncodedKind(InputTile[i]) /\ OnlySpecTags(InputTile[i])) =>
        LET props == InputTile[i].properties
        IN  /\ PropertyCalls(Segment(result.trace, i)) =
                 [a \in 1..Len(props) |->
                    Event("add_property", WireType(props[a].value.which),
                          <<props[a].key, props[a].value.get>>)]
            /\ HasCommit(Segment(result.trace, i))

\* the positions of the features that reach the attribute encoder with an
\* attribute outside the four tags of the specification
BadAttributeFeatures ==
  {i \in 1..Len(InputTile) : EncodedKind(InputTile[i]) /\ ~OnlySpecTags(InputTile[i])}

Min(S) == CHOOSE i \in S : \A j \in S : i <= j

\* the position of the last feature the loop of getTile took up
LastReached(trace) ==
  CHOOSE i \in 1..Len(InputTile) :
    Reached(trace, i) /\ \A j \in 1..Len(InputTile) : Reached(trace, j) => j <= i

\* C8: when a feature that is encoded (a polygon or a line string of nonzero
\* length) has an attribute whose tag is outside boolean, unsigned-integer,
\* double and string, getTile throws the unknown-attribute-type error: the
\* feature being encoded is not committed, no feature after the first such
\* feature is taken up, serialize is not reached and no bytes are returned,
\* wherever the feature is in the tile and the attribute in its map.
C8_UnknownAttributeAbortsTile ==
  (Encoded /\ BadAttributeFeatures # {}) =>
    /\ result.thrown = "runtime_error"
    /\ result.message = <<"Unknown variant type">>
    /\ ~result.bytes.returned
    /\ \A p \in 1..Len(result.trace) : result.trace[p].call # "serialize"
    /\ LastReached(result.trace) <= Min(BadAttributeFeatures)
    /\ ~HasCommit(Segment(result.trace, LastReached(result.trace)))

\* the first feature carries the bad attribute, and the feature after it,
\* which would encode, is never taken up
C8_Witness ==
  /\ Encoded
  /\ Len(InputTile) >= 2
  /\ BadAttributeFeatures = {1}
  /\ EncodedKind(InputTile[2])
  /\ ~Reached(result.trace, 2)
  /\ result.thrown = "runtime_error"

\* C9: a feature whose geometry is neither a line string nor a polygon makes
\* getTile fail: the tile is not returned with the feature skipped.
C9_UnsupportedGeometryFails ==
  (Encoded /\ \E i \in 1..Len(InputTile) : ~IsLineString(InputTile[i]) /\ ~IsPolygon(InputTile[i]))
    => (result.thrown # NotThrown /\ ~result.bytes.returned)

Positions(tile) == [i \in 1..Len(tile) |-> i]

\* C10: the features committed to the returned layer are the input features
\* without the zero-length line strings, each once and in input order; no
\* feature is dropped for another reason.
C10_CommittedIsInputMinusZeroLengthLines ==
  (Encoded /\ result.bytes.returned) =>
    /\ CommittedIndices = SelectSeq(Positions(InputTile), LAMBDA i : ~ZeroLengthLine(InputTile[i]))
    /\ Len(result.bytes.layer) = Len(CommittedIndices)

----------------------------------------------------------------------------
(* Claims on the registry *)

\* the path given to the load that was the last call
LoadedPath(r) == r.trace[1].type

\* the keys of the registry
RegisteredKeys(map) == {e[1] : e \in map}

\* C11: a load on a key that is already registered leaves the registry as it
\* is: the index stored under the key stays the one getTile queries, the set
\* of keys is unchanged and the newly built index is not stored.
C11_LoadOnRegisteredKeyIsNoOp ==
  [][\A k \in Keys :
       (result'.op = "load" /\ result'.key = k /\ contains(tilesIndexMap, k))
         => /\ find(tilesIndexMap', k) = find(tilesIndexMap, k)
            /\ RegisteredKeys(tilesIndexMap') = RegisteredKeys(tilesIndexMap)
            /\ tilesIndexMap' = tilesIndexMap]_vars

\* a successful load of another file on a registered key, the index of the
\* first file still stored
C11_Witness ==
  /\ result.op = "load"
  /\ result.thrown = NotThrown
  /\ contains(tilesIndexMap, result.key)
  /\ find(tilesIndexMap, result.key).source # LoadedPath(result)
  /\ find(tilesIndexMap, result.key) # GeoJSONVT(LoadedPath(result), disk[LoadedPath(result)])

\* C12: a load that fails (file unreadable, content not GeoJSON or not a
\* feature collection) leaves the registry exactly as it was: no entry is
\* added, and the entries of the key and of the other keys are untouched.
C12_FailedLoadLeavesRegistry ==
  [][(result'.op = "load" /\ result'.thrown # NotThrown)
       => tilesIndexMap' = tilesIndexMap]_vars

\* a failed load on a key that has no entry, another key being registered
C12_Witness ==
  /\ result.op = "load"
  /\ result.thrown # NotThrown
  /\ ~contains(tilesIndexMap, result.key)
  /\ tilesIndexMap # {}

\* C13: unload never fails; it removes the entry of its key when there is
\* one and changes nothing when there is none, and the entries of the other
\* keys stay as they are.
C13_UnloadRemovesOnlyItsKey ==
  [][\A k \in Keys :
       (result'.op = "unload" /\ result'.key = k)
         => /\ result'.thrown = NotThrown
            /\ ~contains(tilesIndexMap', k)
            /\ ~contains(tilesIndexMap, k) => tilesIndexMap' = tilesIndexMap
            /\ \A o \in Keys \ {k} :
                 /\ contains(tilesIndexMap', o) <=> contains(tilesIndexMap, o)
                 /\ contains(tilesIndexMap, o) => find(tilesIndexMap', o) = find(tilesIndexMap, o)]_vars

\* an unload that erased its key while the other key stayed registered
C13_Witness ==
  /\ result.op = "unload"
  /\ lastOp[result.key] = "unload_erased"
  /\ \E o \in Keys \ {result.key} : contains(tilesIndexMap, o)

----------------------------------------------------------------------------
(* Claims on the declared size of a ring *)

\* the vertex compared with vertex k of ring j: the one before it in the
\* ring, or the last vertex of the ring before; the first vertex of the
\* polygon is compared with a point that differs from it
SkippedVertices(polygon, j) ==
  {k \in 1..Len(polygon[j]) :
     \/ k > 1 /\ polygon[j][k] = polygon[j][k - 1]
     \/ k = 1 /\ j > 1 /\ polygon[j][k] = polygon[j - 1][Len(polygon[j - 1])]}

AddRingCalls(calls) == SelectSeq(calls, LAMBDA e : e.call = "add_ring")

\* C15: every ring of a polygon is declared to the builder with its input
\* vertex count N, once, and the declaration is not corrected; the points
\* emitted for it are N minus the skipped ones, so that at commit the
\* declared count is the emitted count exactly when no point of the ring was
\* skipped and exceeds it by the number of skipped points otherwise.
C15_DeclaredCountIsInputCount ==
  Encoded =>
    \A i \in 1..Len(InputTile) :
      (IsPolygon(InputTile[i]) /\ Reached(result.trace, i)) =>
        LET polygon == InputTile[i].geometry.parts
        IN  /\ AddRingCalls(Segment(result.trace, i)) =
                 [j \in 1..Len(polygon) |-> Event("add_ring", "", <<Len(polygon[j])>>)]
            /\ result.bytes.returned =>
                 \A n \in 1..Len(result.bytes.layer) :
                   CommittedIndices[n] = i =>
                     \A j \in 1..Len(polygon) :
                       LET part == result.bytes.layer[n].parts[j]
                           skipped == Cardinality(SkippedVertices(polygon, j))
                       IN  /\ part.declared = Len(polygon[j])
                           /\ Len(part.points) = Len(polygon[j]) - skipped
                           /\ part.declared = Len(part.points) <=> skipped = 0
                           /\ part.declared - Len(part.points) = skipped

\* a committed polygon with a ring emitted in full and a later ring whose
\* declared count exceeds the points emitted for it
C15_Witness ==
  /\ Encoded
  /\ result.bytes.returned
  /\ \E n \in 1..Len(result.bytes.layer) :
       /\ IsPolygon(Source(n))
       /\ Len(result.bytes.layer[n].parts) >= 2
       /\ result.bytes.layer[n].parts[1].declared = Len(result.bytes.layer[n].parts[1].points)
       /\ result.bytes.layer[n].parts[2].declared > Len(result.bytes.layer[n].parts[2].points)

----------------------------------------------------------------------------
(* Claims on the history of the registry *)

\* every key is stored at most once
UniqueKeys(map) == \A e, o \in map : e[1] = o[1] => e = o

\* the last call was a load that reached the insert
SuccessfulLoad(r, k) == r.op = "load" /\ r.key = k /\ r.thrown = NotThrown

\* C16: after any sequence of load, unload and getTile calls the registry
\* holds key k exactly when a successful load of k has not been followed by
\* an unload of k; the index stored under k is the one built by the first
\* successful load of k since k was last absent (a successful load on an
\* absent key stores the index of its path, and no later call but an unload
\* of k changes what is stored under k); a getTile, successful or failing,
\* adds, removes and replaces no entry.
C16_RegistryFollowsLoadsAndUnloads ==
  /\ [](/\ UniqueKeys(tilesIndexMap)
        /\ \A k \in Keys : contains(tilesIndexMap, k) <=> lastOp[k] = "load")
  /\ [][\A k \in Keys :
          /\ (SuccessfulLoad(result', k) /\ ~contains(tilesIndexMap, k))
               => find(tilesIndexMap', k) =
                    GeoJSONVT(LoadedPath(result'), disk[LoadedPath(result')])
          /\ (contains(tilesIndexMap, k) /\ ~(result'.op = "unload" /\ result'.key = k))
               => /\ contains(tilesIndexMap', k)
                  /\ find(tilesIndexMap', k) = find(tilesIndexMap, k)
          /\ (~contains(tilesIndexMap, k) /\ ~SuccessfulLoad(result', k))
               => ~contains(tilesIndexMap', k)
          /\ result'.op = "getTile" => tilesIndexMap' = tilesIndexMap]_vars

\* a tile returned for a key loaded once more after its unload, the other key
\* having been loaded and unloaded
C16_Witness ==
  /\ result.op = "getTile"
  /\ result.bytes.returned
  /\ lastOp[result.key] = "load"
  /\ find(tilesIndexMap, result.key).source = "b.geojson"
  /\ \E o \in Keys \ {result.key} : lastOp[o] = "unload_erased" /\ ~contains(tilesIndexMap, o)

----------------------------------------------------------------------------
(* Claims on the sentinel of the polygon encoder *)

OutOfRangeRead(trace) ==
  \E p \in 1..Len(trace) : trace[p] = Event("read", "polygon[0][0] out of range", <<>>)

\* C17: the polygon encoder reads the first vertex of the first ring only
\* when the polygon has a ring and that ring a vertex; a polygon without
\* rings or with an empty first ring is encoded or rejected without an
\* out-of-range read.
C17_NoOutOfRangeRead == ~OutOfRangeRead(result.trace)

----------------------------------------------------------------------------
(* Claims on calls from several threads *)

\* two threads are inside the map at once, one of them inserting or erasing
Overlap ==
  \E t, u \in Threads :
    t # u /\ threads[t].pc \in Writing /\ threads[u].pc \in Inside

\* a thread is using an entry that an unload erased after the lookup
UseAfterErase == \E t \in Threads : threads[t].pc = "querying" /\ threads[t].dangling

\* C14: when the native methods are called from several threads, no call
\* reads or writes the registry while another is inserting into it or
\* erasing from it, and no getTile uses the entry it found after an unload
\* of the same key has erased it.
C14_RegistryNeverRaced == ~Overlap /\ ~UseAfterErase

====
